---- MODULE Spec2Model ----
(***************************************************************************)
(* The two factorisation circuits of src/under_constrained:                *)
(*   factor_underconstrained.rs  gate "Mul Gate"                           *)
(*   factor_sound.rs             gate "Mul & NotEqOne Gate" + two IsZero   *)
(* run under halo2's MockProver: synthesize (assign_row, expose_public),   *)
(* then verify (every gate polynomial is 0 on row 0, every copy constraint *)
(* holds).  The field is a prime field of order p; p ranges over the       *)
(* primes up to MaxPrime.                                                  *)
(*                                                                         *)
(* Value<F> and a table cell are sets of at most one field element:        *)
(* {} is Value::unknown() / an unassigned cell, {x} is Value::known(x).    *)
(***************************************************************************)
EXTENDS Integers, Sequences, FiniteSets

VARIABLES p, circuit, witnessed, instance, advice, selector, copies, pc, failures

vars == <<p, circuit, witnessed, instance, advice, selector, copies, pc, failures>>

MaxPrime == 6

Variants == {"sound", "under"}

IsPrime(n) == n > 1 /\ \A d \in 2..(n - 1) : n % d /= 0

Primes == {n \in 2..MaxPrime : IsPrime(n)}

\* ------------------------------------------------------------- the field

F == 0..(p - 1)

ONE == 1

FDefault == 0

FAdd(a, b) == (a + b) % p

FSub(a, b) == (a - b + p) % p

FMul(a, b) == (a * b) % p

\* Field::invert: a CtOption, here the set of inverses (empty for 0)
FInvert(a) == {x \in F : FMul(a, x) = ONE}

\* the inverse of a nonzero element
FInv(a) == CHOOSE x \in F : FMul(a, x) = ONE

\* ------------------------------------------------------------- Value<F>

Known(x) == {x}

Unknown == {}

VMul(a, b) == {FMul(x, y) : x \in a, y \in b}

\* what a query of a cell evaluates to in the prover (an unassigned cell is 0)
CellVal(c) == IF c = {} THEN 0 ELSE CHOOSE x \in c : TRUE

\* ------------------------------------------------------------- IsZeroChip

\* IsZeroConfig::expr(): 1 - e*inv
IsZeroExpr(e, inv) == FSub(ONE, FMul(e, inv))

\* the gadget's own constraints, gated by s: e*inv == 1 - z, e*z == 0
IsZeroConstraints(s, e, inv) ==
    LET z == IsZeroExpr(e, inv)
    IN  << FMul(s, FSub(FMul(e, inv), FSub(ONE, z))), FMul(s, FMul(e, z)) >>

\* IsZeroChip::assign: inv = e^-1 if e /= 0, else 0
IsZeroAssign(value) ==
    {IF FInvert(x) = {} THEN 0 ELSE FInv(x) : x \in value}

\* ------------------------------------------------------------- configure

Columns == {"lhs", "rhs", "mul", "lhs_inv", "rhs_inv"}

EmptyRow == [c \in Columns |-> {}]

\* (mutant) the product added instead of subtracted: l * r + m
MulExprSum(l, r, m) == FAdd(FMul(l, r), m)

\* l * r - m
MulExpr(l, r, m) == FSub(FMul(l, r), m)

\* the expression handed to the lhs IsZeroChip: lhs - 1
LhsMinusOne(l) == FSub(l, ONE)

\* the expression handed to the rhs IsZeroChip: rhs - 1
RhsMinusOne(r) == FSub(r, ONE)

\* (mutant) a sum where the gate has a product: s * (l + r - m)
UnderGateSum(s, row) ==
    << FMul(s, FSub(FAdd(CellVal(row.lhs), CellVal(row.rhs)), CellVal(row.mul))) >>

\* "Mul Gate" of the under-constrained chip
UnderGate(s, row) ==
    << FMul(s, MulExpr(CellVal(row.lhs), CellVal(row.rhs), CellVal(row.mul))) >>

\* (mutant) the gate without s * lhs_equals_one.expr()
SoundGateNoLhsCheck(s, row) ==
    << FMul(s, MulExpr(CellVal(row.lhs), CellVal(row.rhs), CellVal(row.mul))),
       0,
       FMul(s, IsZeroExpr(RhsMinusOne(CellVal(row.rhs)), CellVal(row.rhs_inv))) >>

\* (mutant) the gate without s * rhs_equals_one.expr()
SoundGateNoRhsCheck(s, row) ==
    << FMul(s, MulExpr(CellVal(row.lhs), CellVal(row.rhs), CellVal(row.mul))),
       FMul(s, IsZeroExpr(LhsMinusOne(CellVal(row.lhs)), CellVal(row.lhs_inv))),
       0 >>

\* "Mul & NotEqOne Gate" of the sound chip
SoundGate(s, row) ==
    << FMul(s, MulExpr(CellVal(row.lhs), CellVal(row.rhs), CellVal(row.mul))),
       FMul(s, IsZeroExpr(LhsMinusOne(CellVal(row.lhs)), CellVal(row.lhs_inv))),
       FMul(s, IsZeroExpr(RhsMinusOne(CellVal(row.rhs)), CellVal(row.rhs_inv))) >>

\* every polynomial the constraint system of a variant holds, by name
Polys(v, s, row) ==
    IF v = "under"
    THEN [n \in {"Mul"} |-> UnderGate(s, row)[1]]
    ELSE LET g  == SoundGate(s, row)
             zl == IsZeroConstraints(s, LhsMinusOne(CellVal(row.lhs)), CellVal(row.lhs_inv))
             zr == IsZeroConstraints(s, RhsMinusOne(CellVal(row.rhs)), CellVal(row.rhs_inv))
         IN  [n \in {"Mul", "LhsNotOne", "RhsNotOne",
                     "LhsIsZero1", "LhsIsZero2", "RhsIsZero1", "RhsIsZero2"} |->
                 CASE n = "Mul"        -> g[1]
                   [] n = "LhsNotOne"  -> g[2]
                   [] n = "RhsNotOne"  -> g[3]
                   [] n = "LhsIsZero1" -> zl[1]
                   [] n = "LhsIsZero2" -> zl[2]
                   [] n = "RhsIsZero1" -> zr[1]
                   [] n = "RhsIsZero2" -> zr[2]]

\* ------------------------------------------------------------- assign_row

RECURSIVE AssignAll(_, _)
\* region.assign_advice(..)? in program order: the first unknown value is
\* an Err and ends the region; the cells assigned before it stay assigned
AssignAll(steps, row) ==
    IF steps = << >> THEN [ok |-> TRUE, advice |-> row]
    ELSE LET st == Head(steps)
         IN  IF st[2] = Unknown THEN [ok |-> FALSE, advice |-> row]
             ELSE AssignAll(Tail(steps), [row EXCEPT ![st[1]] = st[2]])

\* (mutant) the mul cell filled with the sum
MulCellValueSum(lhs_cell, rhs_cell) == {FAdd(x, y) : x \in lhs_cell, y \in rhs_cell}

\* the value closure of the mul cell: lhs_cell.value() * rhs_cell.value()
MulCellValue(lhs_cell, rhs_cell) == VMul(lhs_cell, rhs_cell)

\* (mutant) lhs itself handed to lhs_equals_one.assign
LhsAssignValueRaw(lhs) == lhs

\* the value handed to lhs_equals_one.assign: lhs - F::ONE
LhsAssignValue(lhs) == FSub(lhs, ONE)

\* (mutant) rhs itself handed to rhs_equals_one.assign
RhsAssignValueRaw(rhs) == rhs

\* the value handed to rhs_equals_one.assign: rhs - F::ONE
RhsAssignValue(rhs) == FSub(rhs, ONE)

\* under-constrained assign_row: lhs, rhs, mul, then the selector
AssignRowUnder(c) ==
    LET r == AssignAll(<< <<"lhs", c.lhs>>, <<"rhs", c.rhs>>,
                          <<"mul", MulCellValue(c.lhs, c.rhs)>> >>, EmptyRow)
    IN  [ok |-> r.ok, advice |-> r.advice, selector |-> r.ok]

\* (mutant) sound assign_row without selector.enable
AssignRowSoundNoSelector(c) ==
    LET r == AssignAll(<< <<"lhs", Known(c.lhs)>>, <<"rhs", Known(c.rhs)>>,
                          <<"mul", MulCellValue(Known(c.lhs), Known(c.rhs))>>,
                          <<"lhs_inv", IsZeroAssign(Known(LhsAssignValue(c.lhs)))>>,
                          <<"rhs_inv", IsZeroAssign(Known(RhsAssignValue(c.rhs)))>> >>,
                       EmptyRow)
    IN  [ok |-> r.ok, advice |-> r.advice, selector |-> FALSE]

\* sound assign_row: the selector, lhs, rhs, mul, then the two inverses
AssignRowSound(c) ==
    LET r == AssignAll(<< <<"lhs", Known(c.lhs)>>, <<"rhs", Known(c.rhs)>>,
                          <<"mul", MulCellValue(Known(c.lhs), Known(c.rhs))>>,
                          <<"lhs_inv", IsZeroAssign(Known(LhsAssignValue(c.lhs)))>>,
                          <<"rhs_inv", IsZeroAssign(Known(RhsAssignValue(c.rhs)))>> >>,
                       EmptyRow)
    IN  [ok |-> r.ok, advice |-> r.advice, selector |-> TRUE]

AssignRowOf(v, c) == IF v = "under" THEN AssignRowUnder(c) ELSE AssignRowSound(c)

\* ------------------------------------------------------------- the circuit

\* Self::default(): F::default() is 0, Value::default() is unknown
DefaultCircuit(v) ==
    IF v = "under" THEN [lhs |-> Unknown, rhs |-> Unknown]
    ELSE [lhs |-> FDefault, rhs |-> FDefault]

\* (mutant) the lhs cell bound to the instance instead of the mul cell
ExposePublicLhs(row) == {<<"lhs", row>>}

\* expose_public(cell, row): the (advice column, instance row) made equal
ExposePublicCopies(row) == {<<"mul", row>>}

\* the instance column is padded with zeros
InstanceAt(i) == IF i + 1 <= Len(instance) THEN instance[i + 1] ELSE 0

\* MockProver::verify on row 0: the failing polynomials and copy constraints
VerifyFailures(v) ==
    LET s  == IF selector[v] THEN 1 ELSE 0
        ps == Polys(v, s, advice[v])
    IN  {n \in DOMAIN ps : ps[n] /= 0}
        \cup {"Permutation" : c \in {c \in copies[v] :
                                       CellVal(advice[v][c[1]]) /= InstanceAt(c[2])}}

\* ------------------------------------------------------------- actions

Init ==
    /\ p \in Primes
    /\ \E l \in F, r \in F :
         \E ul \in {Known(l), Unknown}, ur \in {Known(r), Unknown} :
           circuit = [v \in Variants |->
                        IF v = "sound" THEN [lhs |-> l, rhs |-> r]
                        ELSE [lhs |-> ul, rhs |-> ur]]
    /\ witnessed = [v \in Variants |-> TRUE]
    /\ instance \in {<<x>> : x \in F}
    /\ advice = [v \in Variants |-> EmptyRow]
    /\ selector = [v \in Variants |-> FALSE]
    /\ copies = [v \in Variants |-> {}]
    /\ pc = [v \in Variants |-> "start"]
    /\ failures = [v \in Variants |-> {}]

WithoutWitnesses(v) ==
    /\ pc[v] = "start"
    /\ witnessed[v]
    /\ circuit' = [circuit EXCEPT ![v] = DefaultCircuit(v)]
    /\ witnessed' = [witnessed EXCEPT ![v] = FALSE]
    /\ UNCHANGED <<p, instance, advice, selector, copies, pc, failures>>

AssignRow(v) ==
    /\ pc[v] = "start"
    /\ LET r == AssignRowOf(v, circuit[v])
       IN  /\ advice' = [advice EXCEPT ![v] = r.advice]
           /\ selector' = [selector EXCEPT ![v] = r.selector]
           /\ pc' = [pc EXCEPT ![v] = IF r.ok THEN "assigned" ELSE "error"]
    /\ UNCHANGED <<p, circuit, witnessed, instance, copies, failures>>

ExposePublic(v) ==
    /\ pc[v] = "assigned"
    /\ copies' = [copies EXCEPT ![v] = @ \cup ExposePublicCopies(0)]
    /\ pc' = [pc EXCEPT ![v] = "exposed"]
    /\ UNCHANGED <<p, circuit, witnessed, instance, advice, selector, failures>>

Verify(v) ==
    /\ pc[v] = "exposed"
    /\ failures' = [failures EXCEPT ![v] = VerifyFailures(v)]
    /\ pc' = [pc EXCEPT ![v] = "verified"]
    /\ UNCHANGED <<p, circuit, witnessed, instance, advice, selector, copies>>

Next ==
    \E v \in Variants :
        \/ WithoutWitnesses(v)
        \/ AssignRow(v)
        \/ ExposePublic(v)
        \/ Verify(v)

Spec == Init /\ [][Next]_vars

\* ------------------------------------------------- arbitrary assignments
\* The constraint system against a prover that fills row 0 as it likes:
\* the selector is on, the mul cell is bound to instance row 0, and every
\* advice cell of the attacked variant holds an arbitrary field element.

InitGate ==
    /\ p \in Primes
    /\ \E t \in Variants, l \in F, r \in F, m \in F, li \in F, ri \in F :
         /\ advice = [v \in Variants |->
                        IF v /= t THEN EmptyRow
                        ELSE [c \in Columns |->
                                CASE c = "lhs" -> Known(l)
                                  [] c = "rhs" -> Known(r)
                                  [] c = "mul" -> Known(m)
                                  [] c = "lhs_inv" -> IF t = "sound" THEN Known(li) ELSE {}
                                  [] c = "rhs_inv" -> IF t = "sound" THEN Known(ri) ELSE {}]]
         /\ selector = [v \in Variants |-> v = t]
         /\ copies = [v \in Variants |-> IF v = t THEN ExposePublicCopies(0) ELSE {}]
         /\ pc = [v \in Variants |-> IF v = t THEN "exposed" ELSE "start"]
    /\ circuit = [v \in Variants |-> DefaultCircuit(v)]
    /\ witnessed = [v \in Variants |-> FALSE]
    /\ instance \in {<<x>> : x \in F}
    /\ failures = [v \in Variants |-> {}]

NextGate == \E v \in Variants : Verify(v)

SpecGate == InitGate /\ [][NextGate]_vars

\* ------------------------------------------------------------- properties

\* MockProver::run(..).unwrap() returned and assert_satisfied passed
Verifies(v) == pc[v] = "verified" /\ failures[v] = {}

\* the value assigned to a cell of row 0
Cell(v, c) == CellVal(advice[v][c])

\* the circuit's factor as a Value (the sound circuit holds bare field elements)
CircuitValue(v, f) == IF v = "sound" THEN Known(circuit[v][f]) ELSE circuit[v][f]

\* both factors of the circuit are available
HasWitness(v) == CircuitValue(v, "lhs") /= Unknown /\ CircuitValue(v, "rhs") /= Unknown

\* inverse-or-zero
InvOrZero(e) == IF e = 0 THEN 0 ELSE FInv(e)

C2_SoundCompleteness ==
    (/\ circuit["sound"].lhs /= ONE
     /\ circuit["sound"].rhs /= ONE
     /\ instance = << FMul(circuit["sound"].lhs, circuit["sound"].rhs) >>)
    => /\ pc["sound"] /= "error"
       /\ pc["sound"] = "verified" => failures["sound"] = {}

C2_Witness ==
    /\ witnessed["sound"]
    /\ circuit["sound"].lhs \notin {0, ONE}
    /\ circuit["sound"].rhs \notin {0, ONE}
    /\ circuit["sound"].lhs /= circuit["sound"].rhs
    /\ instance = << FMul(circuit["sound"].lhs, circuit["sound"].rhs) >>
    /\ Verifies("sound")

\* C3: the under-constrained circuit with known lhs, rhs (1 included) and
\* public input [lhs*rhs] synthesizes without error and verifies.
C3_UnderAcceptsEveryProduct ==
    (/\ HasWitness("under")
     /\ Known(InstanceAt(0)) = VMul(circuit["under"].lhs, circuit["under"].rhs))
    => /\ pc["under"] /= "error"
       /\ pc["under"] = "verified" => failures["under"] = {}

C3_Witness ==
    /\ circuit["under"].lhs = Known(ONE)
    /\ HasWitness("under")
    /\ circuit["under"].rhs \notin {Known(0), Known(ONE)}
    /\ instance = << CellVal(circuit["under"].rhs) >>
    /\ Verifies("under")

\* C4: in both variants a verified run has no failure only if the public
\* value at row 0 is lhs*rhs; any other public value fails the copy constraint.
C4_PublicBinding ==
    \A v \in Variants :
        pc[v] = "verified" =>
            LET product == VMul(CircuitValue(v, "lhs"), CircuitValue(v, "rhs"))
            IN  /\ failures[v] = {} => Known(InstanceAt(0)) = product
                /\ Known(InstanceAt(0)) /= product => "Permutation" \in failures[v]

C4_Witness ==
    /\ pc["sound"] = "verified"
    /\ witnessed["sound"]
    /\ circuit["sound"].lhs \notin {0, ONE}
    /\ circuit["sound"].rhs \notin {0, ONE}
    /\ InstanceAt(0) /= FMul(circuit["sound"].lhs, circuit["sound"].rhs)
    /\ failures["sound"] = {"Permutation"}

\* C5 as stated: with public input [1] the sound variant never verifies,
\* whatever the cells of row 0 hold.
C5_TargetOneNeverVerifies ==
    (pc["sound"] = "verified" /\ selector["sound"] /\ InstanceAt(0) = ONE)
    => failures["sound"] /= {}

\* C5 amended: with public input [1] the sound variant verifies exactly the
\* rows with lhs outside {0, 1}, rhs = lhs^-1, mul = 1 and both inverse cells
\* holding the inverses of lhs - 1 and rhs - 1; it rejects lhs = 1 and rhs = 1.
C5_TargetOneVerifiesInversePairs ==
    (pc["sound"] = "verified" /\ selector["sound"] /\ InstanceAt(0) = ONE)
    => (failures["sound"] = {}
        <=> /\ Cell("sound", "lhs") \notin {0, ONE}
            /\ Cell("sound", "rhs") = FInv(Cell("sound", "lhs"))
            /\ Cell("sound", "mul") = ONE
            /\ Cell("sound", "lhs_inv") = FInv(LhsMinusOne(Cell("sound", "lhs")))
            /\ Cell("sound", "rhs_inv") = FInv(RhsMinusOne(Cell("sound", "rhs"))))

C5_Witness ==
    /\ Verifies("sound")
    /\ selector["sound"]
    /\ InstanceAt(0) = ONE
    /\ Cell("sound", "lhs") /= Cell("sound", "rhs")
    /\ FMul(Cell("sound", "lhs"), Cell("sound", "rhs")) = ONE

\* C6: after the honest assign_row of the sound variant, for e = lhs - 1 and
\* e = rhs - 1 the inverse cell holds e^-1 (0 for e = 0), expr() = 1 - e*inv is
\* 0 for e /= 0 and 1 for e = 0, and both gadget constraints evaluate to 0.
C6_ZeroTestHonest ==
    pc["sound"] \in {"assigned", "exposed", "verified"} =>
        \A g \in {<<LhsMinusOne(Cell("sound", "lhs")), Cell("sound", "lhs_inv")>>,
                  <<RhsMinusOne(Cell("sound", "rhs")), Cell("sound", "rhs_inv")>>} :
            /\ g[2] = InvOrZero(g[1])
            /\ IsZeroExpr(g[1], g[2]) = (IF g[1] = 0 THEN 1 ELSE 0)
            /\ IsZeroConstraints(1, g[1], g[2]) = <<0, 0>>

C6_Witness ==
    /\ pc["sound"] = "assigned"
    /\ Cell("sound", "lhs") = ONE
    /\ Cell("sound", "lhs_inv") = 0
    /\ Cell("sound", "rhs") \notin {0, ONE}
    /\ Cell("sound", "rhs_inv") \notin {0, ONE}

\* C7: in both variants a circuit whose lhs or rhs is unavailable (the one
\* without_witnesses returns, or one holding an unknown Value) fails in
\* assign_row: synthesize ends in the error before expose_public, nothing is
\* bound to the instance and the run never verifies.
C7_MissingWitnessAborts ==
    \A v \in Variants :
        ((~witnessed[v] \/ ~HasWitness(v)) /\ pc[v] /= "start")
        => pc[v] = "error" /\ copies[v] = {}

C9_WrongInverseFailsVerification ==
    (/\ pc["sound"] = "verified"
     /\ selector["sound"]
     /\ Cell("sound", "lhs") /= ONE
     /\ Cell("sound", "rhs") /= ONE)
    => /\ (\/ Cell("sound", "lhs_inv") /= FInv(FSub(Cell("sound", "lhs"), ONE))
           \/ Cell("sound", "rhs_inv") /= FInv(FSub(Cell("sound", "rhs"), ONE)))
          => failures["sound"] /= {}
       /\ failures["sound"] = {}
          => advice["sound"] =
               AssignRowSound([lhs |-> Cell("sound", "lhs"),
                               rhs |-> Cell("sound", "rhs")]).advice

C9_Witness ==
    /\ pc["sound"] = "verified"
    /\ selector["sound"]
    /\ Cell("sound", "lhs") \notin {0, ONE}
    /\ Cell("sound", "rhs") \notin {0, ONE}
    /\ Cell("sound", "mul") = FMul(Cell("sound", "lhs"), Cell("sound", "rhs"))
    /\ instance = << Cell("sound", "mul") >>
    /\ Cell("sound", "lhs_inv") = FInv(FSub(Cell("sound", "lhs"), ONE))
    /\ Cell("sound", "rhs_inv") /= FInv(FSub(Cell("sound", "rhs"), ONE))
    /\ failures["sound"] = {"RhsNotOne", "RhsIsZero2"}

====
